---- MODULE Spec2Model ----
(***************************************************************************)
(* Order / payment ledger of the PoolPal dashboard.                        *)
(*                                                                         *)
(* The model covers the order service (lib/order-service), the payment     *)
(* service (lib/payment-service), and the two dashboard forms that write   *)
(* to them (orders/new, payments/new).  The Firestore collections          *)
(* 'orders' and 'payments' are functions from document ids to records;     *)
(* a document id is the Date.now() value embedded in `order_<now>` or      *)
(* `payment_<now>`.                                                        *)
(***************************************************************************)
EXTENDS Integers, Sequences, FiniteSets, TLC

\* ---------------------------------------------------------------- bounds
\* Largest value the millisecond clock reaches.
MaxTime == 1
\* Largest number of order documents, and of payment documents, stored at once.
MaxOrders == 1
MaxPayments == 2
\* Largest number of ledger calls made in one behaviour.
MaxCalls == 4
\* Largest order total handed to createOrderWithPayment, and largest amount typed
\* into the new-payment form.
MaxAmount == 2
\* Largest number of line items on the new-order form, largest unit price of a
\* product, and largest quantity of a line item.
MaxItems == 2
MaxPrice == 2
MaxQty == 2
\* Largest number of status calls that have read their record and not yet
\* written it.
MaxInflight == 2
\* Accounts of the user store, and communities.
MaxUsers == 3
MaxCommunities == 1

\* ------------------------------------------------------------- constants
\* An optional field that is absent (`undefined`) or a null id.
None == -1

Times == 0..MaxTime
Ids == Times
\* Amounts typed into the new-payment form (parseFloat of the field): the
\* ledger reads an amount only to compare it with 0.
AmountInputs == {0, 1}
\* Payment amounts and order totals.
Amounts == 1..MaxAmount
\* What can stand in the shipping-address field: nothing, spaces only, an address.
Addresses == {"", " ", "12 Cue Street"}

\* enum OrderStatus
OrderStatus ==
  {"pending", "processing", "completed", "cancelled", "refunded", "shipped", "delivered"}

\* enum PaymentStatus
PaymentStatus ==
  {"pending", "processing", "completed", "failed", "refunded", "cancelled"}

\* The value of the expression OrderStatus.RETURNED: the enum has no such
\* member, so the property access yields undefined.
OrderStatus_RETURNED == "undefined"

\* Status arguments a caller can hand to updateOrderStatus: the enum members,
\* the raw string of the status the transition table names, and undefined.
OrderStatusArgs == OrderStatus \cup {"returned", OrderStatus_RETURNED}

VARIABLES
  orders,    \* Firestore collection 'orders': id -> document
  payments,  \* Firestore collection 'payments': id -> document
  now,       \* Date.now()
  form,      \* state of the new-payment page
  calls,     \* number of ledger calls made so far
  inflight,  \* per client: the status call that has validated and not yet written
  last,      \* the outcome of the ledger call that has just settled, or Idle
  detail,    \* state of the payment detail page
  users,          \* Firestore collection 'users': uid -> document
  rtdbUsers,      \* Realtime Database path users/<uid>: uid -> role
  userCache,      \* user service: the per-user read cache, uid -> entry
  allUsersCache,  \* user service: the cached list of users
  refreshing,     \* a background refreshUsersCache has been started
  returned,       \* what the last read of the user service returned
  communities,    \* Firestore collection 'communities': id -> document
  members,        \* documents communities/<id>/members/<uid>: the pairs <<id, uid>>
  adminCalls      \* client -> the locals (communityId, userId) of its
                  \* addCommunityAdmin that has read and not yet written

ledgerVars == <<orders, payments, form, inflight, detail>>
userVars == <<users, rtdbUsers, userCache, allUsersCache, refreshing, returned>>
communityVars == <<communities, members, adminCalls>>
vars == <<orders, payments, now, form, calls, inflight, last, detail,
          userVars, communityVars>>

\* interface Order (the fields the ledger calls read or write by name; items and
\* the timestamps are stored and never read by them, and are left out)
NoOrder ==
  [exists |-> FALSE, status |-> "pending", total |-> 0, isPaid |-> FALSE,
   paymentId |-> None, paymentReferenceCode |-> None]

\* interface Payment (the fields the ledger calls read or write by name;
\* updatedAt and createdAt are stored and never read by them, and are left out)
NoPayment ==
  [exists |-> FALSE, orderId |-> None, amount |-> 0, referenceCode |-> None,
   status |-> "pending", completedAt |-> None]

\* useState defaults of NewPaymentPage
NoSelection == [id |-> None, isPaid |-> FALSE]
EmptyForm == [orders |-> {}, orderId |-> None, selectedOrder |-> NoSelection]

\* The clients (browser sessions) whose status calls can overlap, and the
\* locals a call holds across its awaits: the arguments and the orderId of the
\* payment it read.
Clients == 1..MaxInflight
NoRequest == [kind |-> "none", id |-> None, status |-> "none", orderId |-> None]

\* What a ledger call reports to its caller: the call, the document it named,
\* "ok" or the error it failed with, and the number it returned (if any).
Outcome(op, id, err) == [op |-> op, id |-> id, err |-> err, value |-> None]
\* no call is waiting to report
Idle == Outcome("none", None, "none")

\* useState defaults of PaymentDetailClient: no payment loaded; `toast` is the
\* page's last report of handleUpdateStatus
NoDetail == [id |-> None, status |-> "none", completedAt |-> None, toast |-> "none"]

\* A collection holds the documents that exist: a function on their ids.
NoDocs == [i \in {} |-> None]
get(coll, id, none) == IF id \in DOMAIN coll THEN coll[id] ELSE none
put(coll, id, doc) == [i \in DOMAIN coll \cup {id} |-> IF i = id THEN doc ELSE coll[i]]
del(coll, id) == [i \in DOMAIN coll \ {id} |-> coll[i]]

\* Account ids, and the values the forms give to the two User fields the
\* model follows ("none" is a field the document does not have).
Uids == 1..MaxUsers
UserTypes == {"player", "fan"}
Names == {"Ann", "Bea"}
\* interface User; NoUser is the missing document, null to the callers
NoUser == [exists |-> FALSE, userType |-> "none", fullName |-> "none"]

\* Cache expiration times in milliseconds
USER_CACHE_EXPIRATION == 2 * 60 * 1000
ALL_USERS_CACHE_EXPIRATION == 5 * 60 * 1000
\* The timestamp 0 of the code: the model's clock counts Date.now() from the
\* moment the page was loaded, which is further from 1970 than any expiration.
Epoch == 0 - 2 * ALL_USERS_CACHE_EXPIRATION

\* nothing returned yet by getUserById / getAllUsers
NoReturn == [user |-> NoUser, users |-> NoDocs]

\* interface Community (adminIds and memberCount; the other fields are never
\* read by the calls of the model)
CommunityIds == 1..MaxCommunities
NoCommunity == [adminIds |-> {}, memberCount |-> 0]

\* ------------------------------------------------------- pure functions

\* validTransitions of isValidOrderStatusTransition
OrderTransitions(currentStatus) ==
  CASE currentStatus = "pending"    -> {"processing", "cancelled"}
    [] currentStatus = "processing" -> {"shipped", "completed", "cancelled"}
    [] currentStatus = "shipped"    -> {"delivered", OrderStatus_RETURNED}
    [] currentStatus = "delivered"  -> {"completed", OrderStatus_RETURNED}
    [] currentStatus = "completed"  -> {"refunded"}
    [] currentStatus = "cancelled"  -> {}
    [] currentStatus = "refunded"   -> {}
    [] OTHER                        -> {}

isValidOrderStatusTransition(currentStatus, newStatus) ==
  newStatus \in OrderTransitions(currentStatus)

\* The payment gate with PROCESSING forgotten.
PaymentDependent_WithoutProcessing == {"shipped", "delivered", "completed"}

\* The statuses updateOrderStatus grants to paid orders only.
PaymentDependent == {"processing", "shipped", "delivered", "completed"}

\* The table of the payment detail page (getValidStatusTransitions), which lets a
\* FAILED payment go to PROCESSING: the payment service with the wrong table.
PaymentTransitions_DetailPage(currentStatus) ==
  CASE currentStatus = "pending"    -> {"processing", "completed", "failed", "cancelled"}
    [] currentStatus = "processing" -> {"completed", "failed"}
    [] currentStatus = "completed"  -> {"refunded"}
    [] currentStatus = "failed"     -> {"pending", "processing"}
    [] currentStatus = "refunded"   -> {}
    [] currentStatus = "cancelled"  -> {"pending"}
    [] OTHER                        -> {}

\* validTransitions of isValidStatusTransition (payment service)
PaymentTransitions(currentStatus) ==
  CASE currentStatus = "pending"    -> {"processing", "completed", "failed", "cancelled"}
    [] currentStatus = "processing" -> {"completed", "failed"}
    [] currentStatus = "completed"  -> {"refunded"}
    [] currentStatus = "failed"     -> {"pending", "cancelled"}
    [] currentStatus = "refunded"   -> {}
    [] currentStatus = "cancelled"  -> {"pending"}
    [] OTHER                        -> {}

\* A validation that lets a status be set again.
isValidStatusTransition_AllowsRepeat(currentStatus, newStatus) ==
  newStatus = currentStatus \/ newStatus \in PaymentTransitions(currentStatus)

isValidStatusTransition(currentStatus, newStatus) ==
  newStatus \in PaymentTransitions(currentStatus)

\* items.reduce((total, item) => total + item.price * item.quantity, 0)
RECURSIVE calculateOrderTotal(_)
calculateOrderTotal(items) ==
  IF items = <<>> THEN 0
  ELSE calculateOrderTotal(SubSeq(items, 1, Len(items) - 1))
       + items[Len(items)].price * items[Len(items)].quantity

\* interface OrderItem, and the lists of selected products of the new-order form:
\* the product form takes any price >= 0, the order form any quantity >= 1
OrderItem == [price : 0..MaxPrice, quantity : 1..MaxQty]
ItemLists == UNION {[1..n -> OrderItem] : n \in 0..MaxItems}
\* no product selected, or one unit of a product of price 1
UnitItemLists == {<<>>, <<[price |-> 1, quantity |-> 1]>>}

\* A ledger call starts when the previous call has settled, and runs to its end
\* with no other call in between; the number of calls in a behaviour is bounded.
StartCall ==
  /\ last = Idle
  /\ calls < MaxCalls
  /\ calls' = calls + 1
  /\ UNCHANGED <<inflight, userVars, communityVars>>

\* A creation under `id` keeps the collection within its bound.
RoomFor(coll, id, max) ==
  coll[id].exists \/ Cardinality({i \in Ids : coll[i].exists}) < max

\* ------------------------------------------------------------------ Init
Init ==
  /\ orders = [i \in Ids |-> NoOrder]
  /\ payments = [i \in Ids |-> NoPayment]
  /\ now = 0
  /\ form = EmptyForm
  /\ calls = 0
  /\ inflight = [c \in Clients |-> NoRequest]
  /\ last = Idle
  /\ detail = NoDetail
  /\ users = NoDocs
  /\ rtdbUsers = NoDocs
  /\ userCache = NoDocs
  /\ allUsersCache = [users |-> NoDocs, timestamp |-> Epoch]
  /\ refreshing = FALSE
  /\ returned = NoReturn
  /\ communities = NoDocs
  /\ members = {}
  /\ adminCalls = NoDocs

\* The clock advances between (or during) user actions.
Tick ==
  /\ last = Idle
  /\ now < MaxTime
  /\ now' = now + 1
  /\ UNCHANGED <<orders, payments, form, calls, inflight, last, detail, userVars, communityVars>>

\* The caller has taken the outcome of the settled call (toast, alert, navigation).
Settle ==
  /\ last # Idle
  /\ last' = Idle
  /\ UNCHANGED <<orders, payments, now, form, calls, inflight, detail, userVars, communityVars>>

\* ------------------------------------------------------------ order service

\* saveOrder: setDoc replaces the whole document stored under the id.
saveOrder(ords, orderId, orderData) ==
  [ords EXCEPT ![orderId] = [orderData EXCEPT !.exists = TRUE]]

\* NewOrderPage.handleSubmit: the form's validation, then saveOrder with id ''.
createOrder(items, shippingAddress) ==
  /\ StartCall
  /\ RoomFor(orders, now, MaxOrders)
  /\ IF Len(items) = 0 \/ shippingAddress = ""
       THEN /\ UNCHANGED orders
            /\ last' = Outcome("createOrder", None, "validation")
       ELSE /\ orders' = saveOrder(orders, now,
                 [NoOrder EXCEPT !.status = "pending",
                                 !.total = calculateOrderTotal(items),
                                 !.isPaid = FALSE])
            /\ last' = Outcome("createOrder", now, "ok")
  /\ UNCHANGED <<payments, now, form, detail>>

\* createOrderWithPayment: saveOrder under order_<now>, then setDoc of a
\* pending payment under payment_<now>, the clock read again after the await.
createOrderWithPayment(total, later) ==
  LET \* paymentReferenceCode omitted: generateReferenceCode(), PAY-<now>-<random>
      referenceCode == now
      orderId == now
      \* Date.now() once saveOrder has been awaited
      t2 == IF later THEN now + 1 ELSE now
      paymentId == t2
  IN /\ StartCall
     /\ t2 \in Times
     /\ RoomFor(orders, orderId, MaxOrders)
     /\ RoomFor(payments, paymentId, MaxPayments)
     /\ orders' = saveOrder(orders, orderId,
            [NoOrder EXCEPT !.status = "pending", !.total = total, !.isPaid = FALSE,
                            !.paymentReferenceCode = referenceCode])
     /\ payments' = [payments EXCEPT ![paymentId] =
            [NoPayment EXCEPT !.exists = TRUE, !.orderId = orderId, !.amount = total,
                              !.referenceCode = referenceCode, !.status = "pending"]]
     /\ now' = t2
     /\ last' = Outcome("createOrderWithPayment", orderId, "ok")
     /\ UNCHANGED <<form, detail>>

\* updateOrderStatus
updateOrderStatus(id, status) ==
  LET order == orders[id]
      fail(err) == /\ UNCHANGED orders
                   /\ last' = Outcome("updateOrderStatus", id, err)
  IN /\ StartCall
     /\ IF ~order.exists
          THEN fail("not-found")
        ELSE IF ~isValidOrderStatusTransition(order.status, status)
          THEN fail("invalid-transition")
        ELSE IF status \in PaymentDependent /\ ~order.isPaid
          THEN fail("payment-required")
        ELSE IF status = OrderStatus_RETURNED
          \* updateDoc rejects a field whose value is undefined
          THEN fail("invalid-data")
        ELSE /\ orders' = [orders EXCEPT ![id].status = status]
             /\ last' = Outcome("updateOrderStatus", id, "ok")
     /\ UNCHANGED <<payments, now, form, detail>>

\* deleteOrder: deleteDoc, with no look at the order or its payments.
deleteOrder(id) ==
  /\ StartCall
  /\ orders' = [orders EXCEPT ![id] = NoOrder]
  /\ last' = Outcome("deleteOrder", id, "ok")
  /\ UNCHANGED <<payments, now, form, detail>>

\* updateOrderPayment: updateDoc of the paid fields and the status.
\* (updateDoc of a missing document throws; the caller handles that case.)
updateOrderPayment(ords, orderId, paymentId, paymentReferenceCode) ==
  [ords EXCEPT ![orderId].isPaid = TRUE,
               ![orderId].paymentId = paymentId,
               ![orderId].paymentReferenceCode = paymentReferenceCode,
               ![orderId].status = "processing"]

\* ---------------------------------------------------------- payment service

\* savePayment: setDoc replaces the whole document; completedAt is stamped
\* when the data is COMPLETED and carries no completedAt.
savePayment(pays, paymentId, paymentData, t) ==
  [pays EXCEPT ![paymentId] =
     [paymentData EXCEPT
        !.exists = TRUE,
        !.completedAt = IF paymentData.status = "completed" /\ paymentData.completedAt = None
                          THEN t ELSE paymentData.completedAt]]

\* A failure set that also takes a refund for a failure.
FailureStatuses_WithRefunded == {"failed", "cancelled", "refunded"}

\* status === FAILED || status === CANCELLED: the targets after which
\* updatePaymentStatus looks for another COMPLETED payment of the order.
FailureStatuses == {"failed", "cancelled"}

\* getPaymentsByOrderId: the ids of the order's payments; [] when the query throws.
getPaymentsByOrderId(orderId, queryFails) ==
  IF queryFails THEN {}
  ELSE {p \in Ids : payments[p].exists /\ payments[p].orderId = orderId}

\* A reconciliation that writes isPaid and forgets the status.
updateOrderPaymentStatus_KeepsStatus(ords, orderId, isPaid) ==
  IF ~ords[orderId].exists THEN ords
  ELSE [ords EXCEPT ![orderId].isPaid = isPaid]

\* updateOrderPaymentStatus: no write when the order document is missing.
updateOrderPaymentStatus(ords, orderId, isPaid) ==
  IF ~ords[orderId].exists THEN ords
  ELSE [ords EXCEPT ![orderId].isPaid = isPaid,
                    ![orderId].status = IF isPaid THEN "processing" ELSE "pending"]

\* updatePaymentStatus, as any caller runs it
updatePaymentStatusBody(id, status, queryFails) ==
  LET payment == payments[id]
      fail(err) == /\ UNCHANGED <<orders, payments>>
                   /\ last' = Outcome("updatePaymentStatus", id, err)
      written == [payments EXCEPT
                    ![id].status = status,
                    ![id].completedAt = IF status = "completed" THEN now ELSE @]
      \* the lookup runs after the write, so it sees the new status of `id`
      orderPayments == getPaymentsByOrderId(payment.orderId, queryFails)
      hasCompletedPayment ==
        \E p \in orderPayments : p # id /\ written[p].status = "completed"
  IN /\ StartCall
     /\ IF ~payment.exists
          THEN fail("not-found")
        ELSE IF ~isValidStatusTransition(payment.status, status)
          THEN fail("invalid-transition")
        ELSE /\ payments' = written
             /\ orders' =
                  IF status = "completed"
                    THEN updateOrderPaymentStatus(orders, payment.orderId, TRUE)
                  ELSE IF status \in FailureStatuses /\ ~hasCompletedPayment
                    THEN updateOrderPaymentStatus(orders, payment.orderId, FALSE)
                  ELSE orders
             /\ last' = Outcome("updatePaymentStatus", id, "ok")
     /\ UNCHANGED <<now, form>>

\* updatePaymentStatus called from anywhere but the open detail page
updatePaymentStatus(id, status, queryFails) ==
  /\ updatePaymentStatusBody(id, status, queryFails)
  /\ UNCHANGED detail

\* A deletePayment without the COMPLETED guard.
deletePayment_IgnoresStatus(id) ==
  LET payment == payments[id]
  IN /\ StartCall
     /\ IF ~payment.exists
          THEN /\ UNCHANGED payments
               /\ last' = Outcome("deletePayment", id, "not-found")
        ELSE /\ payments' = [payments EXCEPT ![id] = NoPayment]
             /\ last' = Outcome("deletePayment", id, "ok")
     /\ UNCHANGED <<orders, now, form, detail>>

\* deletePayment
deletePayment(id) ==
  LET payment == payments[id]
  IN /\ StartCall
     /\ IF ~payment.exists
          THEN /\ UNCHANGED payments
               /\ last' = Outcome("deletePayment", id, "not-found")
        ELSE IF payment.status = "completed"
          THEN /\ UNCHANGED payments
               /\ last' = Outcome("deletePayment", id, "conflict")
        ELSE /\ payments' = [payments EXCEPT ![id] = NoPayment]
             /\ last' = Outcome("deletePayment", id, "ok")
     /\ UNCHANGED <<orders, now, form, detail>>

\* payments.reduce((total, payment) => total + (payment.amount || 0), 0)
RECURSIVE sumAmounts(_, _)
sumAmounts(pays, docs) ==
  IF docs = {} THEN 0
  ELSE LET p == CHOOSE d \in docs : TRUE
       IN pays[p].amount + sumAmounts(pays, docs \ {p})

\* A revenue that sums every stored payment, whatever its status.
revenue_AllStatuses(pays) ==
  sumAmounts(pays, {p \in Ids : pays[p].exists})

\* The number getTotalRevenue computes: the documents of the query
\* where('status', '==', COMPLETED), reduced; 0 for an empty snapshot.
revenue(pays) ==
  sumAmounts(pays, {p \in Ids : pays[p].exists /\ pays[p].status = "completed"})

\* getTotalRevenue: 0 when the query throws.
getTotalRevenue(queryFails) ==
  /\ StartCall
  /\ last' = IF queryFails
               THEN [Outcome("getTotalRevenue", None, "query-failed") EXCEPT !.value = 0]
               ELSE [Outcome("getTotalRevenue", None, "ok") EXCEPT !.value = revenue(payments)]
  /\ UNCHANGED <<orders, payments, now, form, detail>>

\* -------------------------------------------- status calls that overlap

\* updatePaymentStatus up to its `await updateDoc`: the read of the payment and
\* the validation against the status it read.
beginUpdatePaymentStatus(c, id, status) ==
  LET payment == payments[id]
  IN /\ inflight[c] = NoRequest
     /\ last = Idle
     /\ calls < MaxCalls
     /\ calls' = calls + 1
     /\ IF ~payment.exists
          THEN /\ last' = Outcome("updatePaymentStatus", id, "not-found")
               /\ UNCHANGED inflight
        ELSE IF ~isValidStatusTransition(payment.status, status)
          THEN /\ last' = Outcome("updatePaymentStatus", id, "invalid-transition")
               /\ UNCHANGED inflight
        ELSE /\ inflight' = [inflight EXCEPT ![c] =
                    [kind |-> "payment", id |-> id, status |-> status,
                     orderId |-> payment.orderId]]
             /\ UNCHANGED last
     /\ UNCHANGED <<orders, payments, now, form, detail, userVars, communityVars>>

\* updatePaymentStatus from its updateDoc on: the write of the status, then the
\* reconciliation of the order of the payment that was read.
finishUpdatePaymentStatus(c, queryFails) ==
  LET id == inflight[c].id
      status == inflight[c].status
      orderId == inflight[c].orderId
      written == [payments EXCEPT
                    ![id].status = status,
                    ![id].completedAt = IF status = "completed" THEN now ELSE @]
      orderPayments == getPaymentsByOrderId(orderId, queryFails)
      hasCompletedPayment ==
        \E p \in orderPayments : p # id /\ written[p].status = "completed"
  IN /\ inflight[c].kind = "payment"
     /\ last = Idle
     /\ IF ~payments[id].exists
          \* updateDoc on a missing document throws
          THEN /\ UNCHANGED <<orders, payments>>
               /\ last' = Outcome("updatePaymentStatus", id, "error")
        ELSE /\ payments' = written
             /\ orders' =
                  IF status = "completed"
                    THEN updateOrderPaymentStatus(orders, orderId, TRUE)
                  ELSE IF status \in FailureStatuses /\ ~hasCompletedPayment
                    THEN updateOrderPaymentStatus(orders, orderId, FALSE)
                  ELSE orders
             /\ last' = Outcome("updatePaymentStatus", id, "ok")
     /\ inflight' = [inflight EXCEPT ![c] = NoRequest]
     /\ UNCHANGED <<now, form, calls, detail, userVars, communityVars>>

\* updateOrderStatus up to its `await updateDoc`: the read of the order, the
\* validation against the status it read, and the payment gate.
beginUpdateOrderStatus(c, id, status) ==
  LET order == orders[id]
      fail(err) == /\ last' = Outcome("updateOrderStatus", id, err)
                   /\ UNCHANGED inflight
  IN /\ inflight[c] = NoRequest
     /\ last = Idle
     /\ calls < MaxCalls
     /\ calls' = calls + 1
     /\ IF ~order.exists
          THEN fail("not-found")
        ELSE IF ~isValidOrderStatusTransition(order.status, status)
          THEN fail("invalid-transition")
        ELSE IF status \in PaymentDependent /\ ~order.isPaid
          THEN fail("payment-required")
        ELSE /\ inflight' = [inflight EXCEPT ![c] =
                    [kind |-> "order", id |-> id, status |-> status, orderId |-> id]]
             /\ UNCHANGED last
     /\ UNCHANGED <<orders, payments, now, form, detail, userVars, communityVars>>

\* updateOrderStatus from its updateDoc on.
finishUpdateOrderStatus(c) ==
  LET id == inflight[c].id
      status == inflight[c].status
  IN /\ inflight[c].kind = "order"
     /\ last = Idle
     /\ IF ~orders[id].exists
          \* updateDoc on a missing document throws
          THEN /\ UNCHANGED orders
               /\ last' = Outcome("updateOrderStatus", id, "error")
        ELSE IF status = OrderStatus_RETURNED
          \* updateDoc rejects a field whose value is undefined
          THEN /\ UNCHANGED orders
               /\ last' = Outcome("updateOrderStatus", id, "invalid-data")
        ELSE /\ orders' = [orders EXCEPT ![id].status = status]
             /\ last' = Outcome("updateOrderStatus", id, "ok")
     /\ inflight' = [inflight EXCEPT ![c] = NoRequest]
     /\ UNCHANGED <<payments, now, form, calls, detail, userVars, communityVars>>

\* ------------------------------------------------------ new-payment page

\* NewPaymentPage mount: fresh component state, fetchOrders keeps the unpaid orders.
fetchOrders ==
  /\ last = Idle
  /\ form' = [EmptyForm EXCEPT !.orders = {o \in Ids : orders[o].exists /\ ~orders[o].isPaid}]
  /\ UNCHANGED <<orders, payments, now, calls, inflight, last, detail, userVars, communityVars>>

\* handleSelectChange("orderId", value) and the fetchOrderDetails effect it triggers.
handleSelectChange(orderId) ==
  /\ last = Idle
  /\ orderId \in form.orders \cup {None}
  /\ form' = [form EXCEPT
        !.orderId = orderId,
        !.selectedOrder =
           IF orderId = None THEN NoSelection
           ELSE IF orders[orderId].exists
             THEN [id |-> orderId, isPaid |-> orders[orderId].isPaid]
           ELSE @]
  /\ UNCHANGED <<orders, payments, now, calls, inflight, last, detail, userVars, communityVars>>

\* NewPaymentPage.handleSubmit: the administrative createPayment.
handleSubmit(amount, saveFails) ==
  LET fail(err) == /\ UNCHANGED <<orders, payments, form>>
                   /\ last' = Outcome("handleSubmit", form.orderId, err)
      referenceCode == now
      paymentData == [NoPayment EXCEPT !.orderId = form.orderId, !.amount = amount,
                                       !.referenceCode = referenceCode,
                                       !.status = "completed"]
      \* savePayment returns null when its setDoc throws
      paymentId == IF saveFails THEN None ELSE now
      saved == IF saveFails THEN payments ELSE savePayment(payments, now, paymentData, now)
  IN /\ StartCall
     /\ RoomFor(payments, now, MaxPayments)
     /\ IF form.orderId = None
          THEN fail("validation")
        ELSE IF form.selectedOrder.id = None
          THEN fail("validation")
        ELSE IF form.selectedOrder.isPaid
          THEN fail("validation")
        ELSE IF amount <= 0
          THEN fail("validation")
        ELSE IF ~orders[form.orderId].exists
          \* updateDoc on a missing order document throws, after the payment write
          THEN /\ payments' = saved
               /\ UNCHANGED <<orders, form>>
               /\ last' = Outcome("handleSubmit", form.orderId, "order-write")
        ELSE /\ payments' = saved
             /\ orders' = updateOrderPayment(orders, form.orderId, paymentId, referenceCode)
             /\ form' = EmptyForm
             /\ last' = Outcome("handleSubmit", form.orderId, "ok")
     /\ UNCHANGED <<now, detail>>

\* ---------------------------------------------------- payment detail page

\* getValidStatusTransitions: the targets the page's status select offers
getValidStatusTransitions(currentStatus) ==
  CASE currentStatus = "pending"    -> {"processing", "completed", "failed", "cancelled"}
    [] currentStatus = "processing" -> {"completed", "failed"}
    [] currentStatus = "completed"  -> {"refunded"}
    [] currentStatus = "failed"     -> {"pending", "processing"}
    [] currentStatus = "cancelled"  -> {"pending"}
    [] currentStatus = "refunded"   -> {}
    [] OTHER                        -> {}

\* PaymentDetailClient mount: fresh component state, then fetchPayment loads the
\* payment (the page shows nothing and redirects when there is none).
fetchPayment(paymentId) ==
  /\ last = Idle
  /\ detail' = IF payments[paymentId].exists
                 THEN [id |-> paymentId, status |-> payments[paymentId].status,
                       completedAt |-> payments[paymentId].completedAt,
                       toast |-> "none"]
               ELSE NoDetail
  /\ UNCHANGED <<orders, payments, now, form, calls, inflight, last,
                 userVars, communityVars>>

\* handleUpdateStatus with newStatus picked in the select: the awaited
\* updatePaymentStatus, whose boolean result is dropped, then setPayment and
\* toast.success (updatePaymentStatus never throws, so the catch never runs).
handleUpdateStatus(newStatus, queryFails) ==
  /\ detail.id # None
  /\ newStatus \in getValidStatusTransitions(detail.status)
  /\ updatePaymentStatusBody(detail.id, newStatus, queryFails)
  /\ detail' = [detail EXCEPT
        !.status = newStatus,
        !.completedAt = IF newStatus = "completed" THEN now ELSE @,
        !.toast = "success"]

\* ------------------------------------------------------------ user service

\* Partial<User> as the callers build it: some of the fields, with values.
UserData ==
  {[fullName |-> n] : n \in Names} \cup {[userType |-> t] : t \in UserTypes}
    \cup {[userType |-> t, fullName |-> n] : t \in UserTypes, n \in Names}

\* {...user, ...userData}, and setDoc(..., {merge: true}) on the document
mergeUser(user, userData) ==
  [exists |-> TRUE,
   userType |-> IF "userType" \in DOMAIN userData THEN userData.userType ELSE user.userType,
   fullName |-> IF "fullName" \in DOMAIN userData THEN userData.fullName ELSE user.fullName]

\* A call of the user service starts when the previous call has settled.
StartUserCall ==
  /\ last = Idle
  /\ calls < MaxCalls
  /\ calls' = calls + 1
  /\ UNCHANGED <<ledgerVars, now>>

\* saveUser: the merge write, the refresh of the user's cache entry when there
\* is one, and the invalidation of the users list.
saveUser(uid, userData) ==
  /\ StartUserCall
  /\ users' = put(users, uid, mergeUser(get(users, uid, NoUser), userData))
  /\ userCache' =
       IF uid \in DOMAIN userCache
         THEN put(userCache, uid,
                  [user |-> mergeUser(userCache[uid].user, userData), timestamp |-> now])
       ELSE userCache
  /\ allUsersCache' = [allUsersCache EXCEPT !.timestamp = Epoch]
  /\ last' = Outcome("saveUser", uid, "ok")
  /\ UNCHANGED <<rtdbUsers, refreshing, returned, communityVars>>

\* getUserById: the cache entry is served while (now - timestamp) is below
\* USER_CACHE_EXPIRATION ...
cacheValid(uid) ==
  uid \in DOMAIN userCache /\ (now - userCache[uid].timestamp) < USER_CACHE_EXPIRATION

\* ... and the user it returns: the cached one, or the document read
lookupUser(uid) ==
  IF cacheValid(uid) THEN userCache[uid].user ELSE get(users, uid, NoUser)

\* ... and the cache it leaves: what was read is cached, a missing user as null
cacheAfterLookup(uid) ==
  IF cacheValid(uid) THEN userCache
  ELSE put(userCache, uid, [user |-> get(users, uid, NoUser), timestamp |-> now])

getUserById(uid) ==
  /\ StartUserCall
  /\ returned' = [returned EXCEPT !.user = lookupUser(uid)]
  /\ userCache' = cacheAfterLookup(uid)
  /\ last' = Outcome("getUserById", uid, "ok")
  /\ UNCHANGED <<users, rtdbUsers, allUsersCache, refreshing, communityVars>>

\* getAllUsers (the store holds fewer than limitCount users): a non-empty
\* cached list is returned at once, fresh or stale, a stale one after starting
\* refreshUsersCache in the background; an empty one waits for the refresh.
getAllUsers ==
  /\ StartUserCall
  /\ IF DOMAIN allUsersCache.users # {}
       THEN /\ returned' = [returned EXCEPT !.users = allUsersCache.users]
            /\ refreshing' =
                 IF (now - allUsersCache.timestamp) < ALL_USERS_CACHE_EXPIRATION
                   THEN refreshing ELSE TRUE
            /\ UNCHANGED allUsersCache
     ELSE /\ allUsersCache' = [users |-> users, timestamp |-> now]
          /\ returned' = [returned EXCEPT !.users = users]
          /\ UNCHANGED refreshing
  /\ last' = Outcome("getAllUsers", None, "ok")
  /\ UNCHANGED <<users, rtdbUsers, userCache, communityVars>>

\* refreshUsersCache, started in the background by getAllUsers, completes.
refreshUsersCache ==
  /\ refreshing
  /\ refreshing' = FALSE
  /\ allUsersCache' = [users |-> users, timestamp |-> now]
  /\ UNCHANGED <<ledgerVars, now, calls, last, users, rtdbUsers, userCache, returned,
                 communityVars>>

\* deleteUser: deleteDoc, the user's cache entry dropped, the list invalidated.
deleteUser(uid) ==
  /\ StartUserCall
  /\ users' = del(users, uid)
  /\ userCache' = del(userCache, uid)
  /\ allUsersCache' = [allUsersCache EXCEPT !.timestamp = Epoch]
  /\ last' = Outcome("deleteUser", uid, "ok")
  /\ UNCHANGED <<rtdbUsers, refreshing, returned, communityVars>>

\* updateUserProfile: updateDoc of the given fields (it throws on a missing
\* document); the caches are not touched.
updateUserProfile(uid, profileData) ==
  /\ StartUserCall
  /\ IF uid \in DOMAIN users
       THEN /\ users' = put(users, uid, mergeUser(users[uid], profileData))
            /\ last' = Outcome("updateUserProfile", uid, "ok")
     ELSE /\ UNCHANGED users
          /\ last' = Outcome("updateUserProfile", uid, "error")
  /\ UNCHANGED <<rtdbUsers, userCache, allUsersCache, refreshing, returned, communityVars>>

\* updateUserRole: update of role and userType under users/<uid> of the Realtime
\* Database; neither the Firestore document nor the caches are touched.
updateUserRole(uid, role) ==
  /\ StartUserCall
  /\ rtdbUsers' = put(rtdbUsers, uid, role)
  /\ last' = Outcome("updateUserRole", uid, "ok")
  /\ UNCHANGED <<users, userCache, allUsersCache, refreshing, returned, communityVars>>

\* ------------------------------------------------------- community service

\* adminIds of the new-community form: one or two selected admins
AdminSelections == {a \in SUBSET Uids : Cardinality(a) \in {1, 2}}
\* userRole as the callers of addCommunityMember pass it
MemberRoles == {"player"}

\* A call of the community service starts when the previous call has settled.
StartCommunityCall ==
  /\ last = Idle
  /\ calls < MaxCalls
  /\ calls' = calls + 1
  /\ UNCHANGED <<ledgerVars, now>>

\* the member documents of a community
memberDocs(communityId) == {m \in members : m[1] = communityId}

\* createCommunity: setDoc under a fresh auto-generated id (one that no
\* document path has used), memberCount 0.
createCommunity(id, adminIds) ==
  /\ StartCommunityCall
  /\ id \notin DOMAIN communities
  /\ memberDocs(id) = {}
  /\ communities' = put(communities, id, [NoCommunity EXCEPT !.adminIds = adminIds])
  /\ last' = Outcome("createCommunity", id, "ok")
  /\ UNCHANGED <<members, adminCalls, userVars>>

\* addCommunityMember: getUserById and the player check, setDoc of the member
\* document, then memberCount + 1 when the community document exists.
addCommunityMember(communityId, userId, userRole) ==
  LET user == lookupUser(userId)
      fail(err) == /\ UNCHANGED <<communities, members>>
                   /\ last' = Outcome("addCommunityMember", communityId, err)
  IN /\ StartCommunityCall
     /\ returned' = [returned EXCEPT !.user = user]
     /\ userCache' = cacheAfterLookup(userId)
     /\ IF ~user.exists
          THEN fail("user-not-found")
        ELSE IF userRole = "player" /\ user.userType # "player"
          THEN fail("not-a-player")
        ELSE /\ members' = members \cup {<<communityId, userId>>}
             /\ communities' =
                  IF communityId \in DOMAIN communities
                    THEN [communities EXCEPT ![communityId].memberCount = @ + 1]
                  ELSE communities
             /\ last' = Outcome("addCommunityMember", communityId, "ok")
     /\ UNCHANGED <<users, rtdbUsers, allUsersCache, refreshing, adminCalls>>

\* removeCommunityMember: deleteDoc of the member document, then
\* memberCount - 1 when the community exists with a positive count.
removeCommunityMember(communityId, userId) ==
  /\ StartCommunityCall
  /\ members' = members \ {<<communityId, userId>>}
  /\ communities' =
       IF communityId \in DOMAIN communities /\ communities[communityId].memberCount > 0
         THEN [communities EXCEPT ![communityId].memberCount = @ - 1]
       ELSE communities
  /\ last' = Outcome("removeCommunityMember", communityId, "ok")
  /\ UNCHANGED <<adminCalls, userVars>>

\* addCommunityAdmin up to its `await updateDoc`: getCommunityById and the
\* test of adminIds.length against 2.
beginAddCommunityAdmin(c, communityId, userId) ==
  /\ c \notin DOMAIN adminCalls
  /\ StartCommunityCall
  /\ IF communityId \in DOMAIN communities
        /\ Cardinality(communities[communityId].adminIds) < 2
       THEN /\ adminCalls' = put(adminCalls, c,
                   [communityId |-> communityId, userId |-> userId])
            /\ UNCHANGED last
     ELSE /\ last' = Outcome("addCommunityAdmin", communityId, "max-admins")
          /\ UNCHANGED adminCalls
  /\ UNCHANGED <<communities, members, userVars>>

\* addCommunityAdmin from its updateDoc on: arrayUnion(userId).
finishAddCommunityAdmin(c) ==
  /\ c \in DOMAIN adminCalls
  /\ last = Idle
  /\ LET communityId == adminCalls[c].communityId
         userId == adminCalls[c].userId
     IN IF communityId \in DOMAIN communities
          THEN /\ communities' = [communities EXCEPT ![communityId].adminIds = @ \cup {userId}]
               /\ last' = Outcome("addCommunityAdmin", communityId, "ok")
        \* updateDoc on a missing document throws
        ELSE /\ UNCHANGED communities
             /\ last' = Outcome("addCommunityAdmin", communityId, "error")
  /\ adminCalls' = del(adminCalls, c)
  /\ UNCHANGED <<ledgerVars, now, calls, members, userVars>>

\* removeCommunityAdmin: arrayRemove(userId), with no check.
removeCommunityAdmin(communityId, userId) ==
  /\ StartCommunityCall
  /\ IF communityId \in DOMAIN communities
       THEN /\ communities' = [communities EXCEPT ![communityId].adminIds = @ \ {userId}]
            /\ last' = Outcome("removeCommunityAdmin", communityId, "ok")
     \* updateDoc on a missing document throws
     ELSE /\ UNCHANGED communities
          /\ last' = Outcome("removeCommunityAdmin", communityId, "error")
  /\ UNCHANGED <<members, adminCalls, userVars>>

\* ------------------------------------------------------------------ Next
Next ==
  \/ Tick
  \/ \E items \in UnitItemLists, shippingAddress \in Addresses :
        createOrder(items, shippingAddress)
  \/ \E total \in AmountInputs \ {0}, later \in BOOLEAN : createOrderWithPayment(total, later)
  \/ \E id \in Ids, status \in OrderStatusArgs : updateOrderStatus(id, status)
  \/ \E id \in Ids : deleteOrder(id)
  \/ \E id \in Ids, status \in PaymentStatus, queryFails \in BOOLEAN :
        updatePaymentStatus(id, status, queryFails)
  \/ \E id \in Ids : deletePayment(id)
  \/ fetchOrders
  \/ \E orderId \in Ids \cup {None} : handleSelectChange(orderId)
  \/ \E amount \in AmountInputs, saveFails \in BOOLEAN : handleSubmit(amount, saveFails)
  \/ Settle

Spec == Init /\ [][Next]_vars

\* The payment ledger with amounts of every size, and the revenue report
\* (creations that read the clock once; Spec has the ones that read it twice).
NextRevenue ==
  \/ Tick
  \/ \E total \in Amounts : createOrderWithPayment(total, FALSE)
  \/ \E id \in Ids, status \in PaymentStatus, queryFails \in BOOLEAN :
        updatePaymentStatus(id, status, queryFails)
  \/ \E id \in Ids : deletePayment(id)
  \/ fetchOrders
  \/ \E orderId \in Ids \cup {None} : handleSelectChange(orderId)
  \/ \E amount \in {0} \cup Amounts, saveFails \in BOOLEAN : handleSubmit(amount, saveFails)
  \/ \E queryFails \in BOOLEAN : getTotalRevenue(queryFails)
  \/ Settle

SpecRevenue == Init /\ [][NextRevenue]_vars

\* The new-order form with item lists of every size and price.
NextOrderTotal ==
  \/ Tick
  \/ \E items \in ItemLists, shippingAddress \in Addresses :
        createOrder(items, shippingAddress)
  \/ \E id \in Ids : deleteOrder(id)
  \/ Settle

SpecOrderTotal == Init /\ [][NextOrderTotal]_vars

\* Status calls of several clients on the same records, interleaved at the
\* await between a call's validation and its write.
NextConcurrent ==
  \/ Tick
  \/ \E total \in AmountInputs \ {0}, later \in BOOLEAN : createOrderWithPayment(total, later)
  \/ \E c \in Clients, id \in Ids, status \in PaymentStatus :
        beginUpdatePaymentStatus(c, id, status)
  \/ \E c \in Clients, queryFails \in BOOLEAN : finishUpdatePaymentStatus(c, queryFails)
  \/ \E c \in Clients, id \in Ids, status \in OrderStatusArgs :
        beginUpdateOrderStatus(c, id, status)
  \/ \E c \in Clients : finishUpdateOrderStatus(c)
  \/ Settle

SpecConcurrent == Init /\ [][NextConcurrent]_vars

\* The payment detail page, open while payments are created and changed.
NextDetailPage ==
  \/ Tick
  \/ \E total \in AmountInputs \ {0}, later \in BOOLEAN : createOrderWithPayment(total, later)
  \/ \E id \in Ids, status \in PaymentStatus, queryFails \in BOOLEAN :
        updatePaymentStatus(id, status, queryFails)
  \/ \E id \in Ids : deletePayment(id)
  \/ \E paymentId \in Ids : fetchPayment(paymentId)
  \/ \E newStatus \in PaymentStatus, queryFails \in BOOLEAN :
        handleUpdateStatus(newStatus, queryFails)
  \/ Settle

SpecDetailPage == Init /\ [][NextDetailPage]_vars

\* The user service of one browser session.
NextUsers ==
  \/ Tick
  \/ \E uid \in Uids, userData \in UserData : saveUser(uid, userData)
  \/ \E uid \in Uids : getUserById(uid)
  \/ getAllUsers
  \/ refreshUsersCache
  \/ \E uid \in Uids : deleteUser(uid)
  \/ \E uid \in Uids, profileData \in UserData : updateUserProfile(uid, profileData)
  \/ \E uid \in Uids, role \in UserTypes : updateUserRole(uid, role)
  \/ Settle

SpecUsers == Init /\ [][NextUsers]_vars

\* The community service, its addCommunityAdmin calls interleaved at the await
\* between the read of the community and the write.
NextCommunity ==
  \/ \E uid \in Uids, userData \in UserData : saveUser(uid, userData)
  \/ \E id \in CommunityIds, adminIds \in AdminSelections : createCommunity(id, adminIds)
  \/ \E communityId \in CommunityIds, userId \in Uids, userRole \in MemberRoles :
        addCommunityMember(communityId, userId, userRole)
  \/ \E communityId \in CommunityIds, userId \in Uids :
        removeCommunityMember(communityId, userId)
  \/ \E c \in Clients, communityId \in CommunityIds, userId \in Uids :
        beginAddCommunityAdmin(c, communityId, userId)
  \/ \E c \in Clients : finishAddCommunityAdmin(c)
  \/ \E communityId \in CommunityIds, userId \in Uids :
        removeCommunityAdmin(communityId, userId)
  \/ Settle

SpecCommunity == Init /\ [][NextCommunity]_vars

TypeOK ==
  /\ now \in Times
  /\ \A o \in Ids : orders[o].status \in OrderStatus
  /\ \A p \in Ids : payments[p].status \in PaymentStatus

\* ================================================================ claims

\* The order table as section 4.1 of the specification states it.
SpecOrderTable(status) ==
  CASE status = "pending"    -> {"processing", "cancelled"}
    [] status = "processing" -> {"shipped", "completed", "cancelled"}
    [] status = "shipped"    -> {"delivered", "returned"}
    [] status = "delivered"  -> {"completed", "returned"}
    [] status = "completed"  -> {"refunded"}
    [] OTHER                 -> {}

\* The payment table as section 4.2 of the specification states it.
SpecPaymentTable(status) ==
  CASE status = "pending"    -> {"processing", "completed", "failed", "cancelled"}
    [] status = "processing" -> {"completed", "failed"}
    [] status = "completed"  -> {"refunded"}
    [] status = "failed"     -> {"pending", "cancelled"}
    [] status = "cancelled"  -> {"pending"}
    [] OTHER                 -> {}

PaidGated == {"processing", "shipped", "delivered", "completed"}

\* the stored payments of order o that are COMPLETED, in the collection pays
CompletedPayments(pays, o) ==
  {p \in Ids : pays[p].exists /\ pays[p].orderId = o /\ pays[p].status = "completed"}

\* a step in which a call of `op` settles
Settles(op) == last = Idle /\ last'.op = op

\* C1 (as claimed): once a setPaymentStatus call has settled successfully, every
\* stored order is paid exactly when one of its payments is COMPLETED.
C1_PaidIffCompletedPayment ==
  (last.op = "updatePaymentStatus" /\ last.err = "ok") =>
     \A o \in Ids : orders[o].exists =>
        (orders[o].isPaid <=> CompletedPayments(payments, o) # {})

\* C2 (as claimed): on a paid order, setOrderStatus succeeds exactly for the
\* targets the specification's table lists for the current status (the two
\* edges into RETURNED included); any other target fails as an invalid
\* transition and leaves the order as it was.
C2_PaidOrderFollowsSpecTable ==
  [][Settles("updateOrderStatus") =>
       \A status \in OrderStatus \cup {"returned"} :
          LET id == last'.id IN
          (orders[id].exists /\ orders[id].isPaid /\ updateOrderStatus(id, status)) =>
             IF status \in SpecOrderTable(orders[id].status)
               THEN last'.err = "ok" /\ orders'[id].status = status
               ELSE last'.err = "invalid-transition" /\ orders' = orders]_vars

\* C3 (as claimed): no setOrderStatus, setPaymentStatus or administrative
\* createPayment changes the status of an order that is CANCELLED or REFUNDED.
C3_TerminalOrderStatusStays ==
  [][last'.op \in {"updateOrderStatus", "updatePaymentStatus", "handleSubmit"} =>
       \A o \in Ids :
          (orders[o].exists /\ orders[o].status \in {"cancelled", "refunded"}) =>
             orders'[o].status = orders[o].status]_vars

\* C4 (as claimed): on an unpaid order, in whatever status, setOrderStatus to a
\* paid-gated target fails with the payment-required error and changes nothing.
C4_UnpaidAlwaysPaymentRequired ==
  [][Settles("updateOrderStatus") =>
       \A status \in PaidGated :
          LET id == last'.id IN
          (orders[id].exists /\ ~orders[id].isPaid /\ updateOrderStatus(id, status)) =>
             (last'.err = "payment-required" /\ orders' = orders)]_vars

\* C4 (amended): on an unpaid order, setOrderStatus to a paid-gated target always
\* fails and changes nothing; the error is payment-required when the target is
\* in the table entry of the order's current status, and invalid-transition
\* when it is not.
C4_UnpaidGatedTargetRejected ==
  [][Settles("updateOrderStatus") =>
       \A status \in PaidGated :
          LET id == last'.id IN
          (orders[id].exists /\ ~orders[id].isPaid /\ updateOrderStatus(id, status)) =>
             /\ orders' = orders
             /\ payments' = payments
             /\ last'.err = IF status \in SpecOrderTable(orders[id].status)
                              THEN "payment-required" ELSE "invalid-transition"]_vars

\* C4 witness: an unpaid PENDING order whose move to a gated status was just
\* refused for want of payment.
C4_Witness ==
  /\ last.op = "updateOrderStatus"
  /\ last.err = "payment-required"
  /\ orders[last.id].exists
  /\ ~orders[last.id].isPaid
  /\ orders[last.id].status = "pending"

\* C5: setPaymentStatus never moves a payment to a status outside the table entry
\* of its current status: such a call fails as an invalid transition and changes
\* neither the payments nor the orders (no call on a REFUNDED payment succeeds).
C5_InvalidPaymentTransitionRejected ==
  [][(Settles("updatePaymentStatus") /\ payments[last'.id].exists) =>
       LET id == last'.id IN
       \* a call that succeeds stores its target, so a target outside the table
       \* was refused exactly when every stored change follows the table
       /\ last'.err = "ok" => payments'[id].status \in SpecPaymentTable(payments[id].status)
       /\ last'.err # "ok" =>
             (last'.err = "invalid-transition" /\ payments' = payments /\ orders' = orders)]_vars

\* C5 witness: a call on a REFUNDED payment has just been refused.
C5_Witness ==
  /\ last.op = "updatePaymentStatus"
  /\ last.err = "invalid-transition"
  /\ payments[last.id].exists
  /\ payments[last.id].status = "refunded"

\* C6 (as claimed): when a payment moves to FAILED or CANCELLED and no payment of
\* its order is COMPLETED, the order becomes unpaid and only a PROCESSING order
\* goes back to PENDING; an order in any other status keeps its status.
C6_FailureRevertsOnlyProcessing ==
  [][(Settles("updatePaymentStatus") /\ last'.err = "ok"
        /\ payments'[last'.id].status \in {"failed", "cancelled"}) =>
       LET o == payments[last'.id].orderId IN
       (orders[o].exists /\ CompletedPayments(payments', o) = {}) =>
          /\ ~orders'[o].isPaid
          /\ orders'[o].status =
               IF orders[o].status = "processing" THEN "pending" ELSE orders[o].status]_vars

\* the order a settled call has marked paid by a payment that became COMPLETED
NewlyCompletedFor(o) ==
  \/ /\ Settles("updatePaymentStatus") /\ last'.err = "ok"
     /\ payments'[last'.id].status = "completed"
     /\ payments[last'.id].orderId = o
  \/ /\ Settles("handleSubmit") /\ last'.err = "ok"
     /\ last'.id = o

\* C7 (as claimed): when a payment becomes COMPLETED, by setPaymentStatus or by
\* the administrative createPayment, the order goes to PROCESSING only from
\* PENDING; in any other status the order keeps its status.
C7_CompletionAdvancesOnlyPending ==
  [][\A o \in Ids :
       (NewlyCompletedFor(o) /\ orders[o].exists) =>
          orders'[o].status =
             IF orders[o].status = "pending" THEN "processing" ELSE orders[o].status]_vars

\* C8 (as claimed): while another payment of the order is COMPLETED, moving a
\* payment of that paid order to FAILED or CANCELLED leaves the order paid and
\* its status unchanged, also when the lookup of the order's payments fails.
C8_OtherCompletedPaymentKeepsOrderPaid ==
  [][(Settles("updatePaymentStatus") /\ last'.err = "ok"
        /\ payments'[last'.id].status \in {"failed", "cancelled"}) =>
       LET o == payments[last'.id].orderId IN
       (orders[o].exists /\ orders[o].isPaid
          /\ CompletedPayments(payments', o) \ {last'.id} # {}) =>
             (orders'[o].isPaid /\ orders'[o].status = orders[o].status)]_vars

C10_RepeatedCompletionChangesNothing ==
  [][(Settles("updatePaymentStatus") /\ payments[last'.id].exists
        /\ payments[last'.id].status = "completed"
        /\ payments'[last'.id].status = "completed") =>
       (payments' = payments /\ orders' = orders /\ last'.err = "invalid-transition")]_vars

\* C10 witness: a call on a COMPLETED payment was refused after the clock had
\* moved past the payment's completedAt.
C10_Witness ==
  /\ last.op = "updatePaymentStatus"
  /\ last.err = "invalid-transition"
  /\ payments[last.id].exists
  /\ payments[last.id].status = "completed"
  /\ payments[last.id].completedAt # None
  /\ payments[last.id].completedAt < now

\* C11 (as claimed): completedAt is set in the step in which a payment is created
\* as COMPLETED or moves into COMPLETED, stays unset in every other step of a
\* payment that has none, and once set is never overwritten or cleared while the
\* payment is stored.
C11_CompletedAtSetOnceAtCompletion ==
  [][\A p \in Ids :
       payments'[p].exists =>
          IF payments[p].exists /\ payments[p].completedAt # None
            THEN payments'[p].completedAt = payments[p].completedAt
            ELSE (payments'[p].completedAt # None) <=>
                    (payments'[p].status = "completed"
                       /\ ~(payments[p].exists /\ payments[p].status = "completed"))]_vars

\* C12 (as claimed): when a transition into COMPLETED marks an unpaid order paid,
\* the order's paymentId and paymentReferenceCode become that payment's id and
\* referenceCode; and after every step each paid order's paymentId names a
\* stored payment of that order.
C12_PaidOrderNamesItsPayment ==
  [][/\ (Settles("updatePaymentStatus") /\ last'.err = "ok"
           /\ payments'[last'.id].status = "completed") =>
          LET id == last'.id
              o == payments[id].orderId IN
          (orders[o].exists /\ ~orders[o].isPaid) =>
             /\ orders'[o].isPaid
             /\ orders'[o].paymentId = id
             /\ orders'[o].paymentReferenceCode = payments[id].referenceCode
     /\ \A o \in Ids :
          (orders'[o].exists /\ orders'[o].isPaid) =>
             /\ orders'[o].paymentId \in Ids
             /\ payments'[orders'[o].paymentId].exists
             /\ payments'[orders'[o].paymentId].orderId = o]_vars

\* C13 (as claimed): a createPayment call (the new-payment form's submit) with
\* amount <= 0, or naming an order that is not stored, or naming an order whose
\* stored isPaid is true when the call is made, is rejected and writes neither
\* a payment nor an order.
C13_CreatePaymentRejectsBadInput ==
  [][Settles("handleSubmit") =>
       LET o == form.orderId
           missingOrPaid == IF o = None THEN TRUE
                            ELSE ~orders[o].exists \/ orders[o].isPaid
           nonPositive == \E saveFails \in BOOLEAN : handleSubmit(0, saveFails)
       IN (missingOrPaid \/ nonPositive) =>
             (last'.err # "ok" /\ payments' = payments /\ orders' = orders)]_vars

\* C14 (as claimed): every stored order has at most one stored payment whose
\* status is COMPLETED.
C14_AtMostOneCompletedPayment ==
  \A o \in Ids : orders[o].exists => Cardinality(CompletedPayments(payments, o)) <= 1

\* C15: deletePayment on a COMPLETED payment fails and leaves every payment and
\* every order as it was; deletePayment on a PENDING payment succeeds and removes
\* exactly that payment, every other payment and every order left as it was.
C15_DeleteRefusedOnlyForCompleted ==
  [][(Settles("deletePayment") /\ payments[last'.id].exists) =>
       LET id == last'.id IN
       /\ payments[id].status = "completed" =>
             (last'.err = "conflict" /\ payments' = payments /\ orders' = orders)
       /\ payments[id].status = "pending" =>
             /\ last'.err = "ok"
             /\ payments' = [payments EXCEPT ![id] = NoPayment]
             /\ orders' = orders]_vars

\* C15 witness: a deletePayment call on a COMPLETED payment of a stored order has
\* just been refused, with a second payment in the collection.
C15_Witness ==
  /\ last.op = "deletePayment"
  /\ last.err = "conflict"
  /\ payments[last.id].exists
  /\ payments[last.id].status = "completed"
  /\ orders[payments[last.id].orderId].exists
  /\ \E p \in Ids \ {last.id} : payments[p].exists

\* The sum the specification asks of totalRevenue: amount over the stored
\* payments with status COMPLETED, taken document by document.
RECURSIVE SpecRevenueUpTo(_, _)
SpecRevenueUpTo(pays, n) ==
  IF n < 0 THEN 0
  ELSE SpecRevenueUpTo(pays, n - 1)
       + (IF pays[n].exists /\ pays[n].status = "completed" THEN pays[n].amount ELSE 0)

C17_MissingOrderReportedAsDangling ==
  [][(Settles("updatePaymentStatus") /\ payments[last'.id].exists
        /\ payments'[last'.id].status # payments[last'.id].status) =>
       LET id == last'.id
           o == payments[id].orderId
           status == payments'[id].status
           reconciles == \/ status = "completed"
                         \/ /\ status \in {"failed", "cancelled"}
                            /\ CompletedPayments(payments', o) \ {id} = {}
       IN (reconciles /\ ~orders[o].exists) =>
             /\ last'.err # "ok"
             /\ payments' = [payments EXCEPT ![id].status = status, ![id].completedAt =
                               IF status = "completed" THEN now ELSE @]]_vars

\* The total the specification asks of createOrder: price * quantity, item by
\* item from the head of the list.
RECURSIVE SpecTotal(_)
SpecTotal(items) ==
  IF items = <<>> THEN 0
  ELSE Head(items).price * Head(items).quantity + SpecTotal(Tail(items))

\* A blank shipping address: empty, or nothing but spaces.
Blank(shippingAddress) == shippingAddress \in {"", " "}

\* C18 (as claimed): createOrder with an empty item list or a blank shipping
\* address is rejected and writes nothing; any other createOrder stores a new
\* order that is PENDING, unpaid, and whose total is the sum of price * quantity
\* over its items, a total that is 0 for no list but the empty one.
C18_CreateOrderTotalsItems ==
  [][Settles("createOrder") =>
       \A items \in ItemLists, shippingAddress \in Addresses :
          createOrder(items, shippingAddress) =>
             IF items = <<>> \/ Blank(shippingAddress)
               THEN last'.err # "ok" /\ orders' = orders
               ELSE /\ last'.err = "ok"
                    /\ orders'[last'.id] =
                         [NoOrder EXCEPT !.exists = TRUE, !.status = "pending",
                                         !.isPaid = FALSE, !.total = SpecTotal(items)]
                    /\ orders'[last'.id].total > 0]_vars

\* C19 (as claimed): when status calls on one record interleave between their
\* validation and their write, every status a call writes is still allowed by
\* the transition table from the status stored just before the write, for
\* payments and for orders.
C19_InterleavedWritesFollowTable ==
  [][/\ (Settles("updatePaymentStatus") /\ last'.err = "ok") =>
          payments'[last'.id].status \in SpecPaymentTable(payments[last'.id].status)
     /\ (Settles("updateOrderStatus") /\ last'.err = "ok") =>
          orders'[last'.id].status \in SpecOrderTable(orders[last'.id].status)]_vars

\* C20 (as claimed): a createOrder, createOrderWithPayment or createPayment call
\* that stores a record stores it under an id no stored record of that
\* collection had, so no creation replaces an existing order or payment.
C20_CreationNeverOverwrites ==
  [][(last = Idle /\ last'.op \in {"createOrder", "createOrderWithPayment", "handleSubmit"}) =>
       /\ \A o \in Ids :
            (orders[o].exists /\ last'.op # "handleSubmit") => orders'[o] = orders[o]
       /\ \A p \in Ids : payments[p].exists => payments'[p] = payments[p]]_vars

\* C22 (as claimed): in every reachable state, every stored payment's orderId is
\* the id of an order present in the store.
C22_PaymentOrderExists ==
  \A p \in Ids : payments[p].exists => orders[payments[p].orderId].exists

\* C24 (as claimed): the new-payment form never leaves an order marked paid
\* without a payment: a submission that stores no payment leaves every order
\* as it was, and a submission that changes an order leaves the order's
\* paymentId naming a stored COMPLETED payment of that order.
C24_PaidOrderHasItsPayment ==
  [][Settles("handleSubmit") =>
       \A o \in Ids :
          /\ payments' = payments => orders'[o] = orders[o]
          /\ orders'[o] # orders[o] =>
               /\ orders'[o].paymentId \in Ids
               /\ payments'[orders'[o].paymentId].exists
               /\ payments'[orders'[o].paymentId].status = "completed"
               /\ payments'[orders'[o].paymentId].orderId = o]_vars

\* C26 (as claimed): in every reachable state, calls interleaved or not, a
\* stored order whose status is PROCESSING, SHIPPED, DELIVERED or COMPLETED
\* has isPaid = TRUE.
C26_GatedStatusIsPaid ==
  \A o \in Ids :
     (orders[o].exists /\ orders[o].status \in PaidGated) => orders[o].isPaid

\* C27: a successful updatePaymentStatus whose target is PENDING, PROCESSING or
\* REFUNDED changes the status of that payment and nothing else: every order
\* and every other payment, and the payment's other fields, are as they were.
C27_NeutralTargetsChangeOnlyStatus ==
  [][(/\ Settles("updatePaymentStatus")
      /\ last'.err = "ok"
      /\ payments'[last'.id].status \in {"pending", "processing", "refunded"}) =>
       /\ orders' = orders
       /\ payments' = [payments EXCEPT ![last'.id].status = payments'[last'.id].status]]_vars

\* C27 witness: a COMPLETED payment of a paid order has just been refunded, and
\* the order has another payment in the collection.
C27_Witness ==
  /\ last.op = "updatePaymentStatus"
  /\ last.err = "ok"
  /\ payments[last.id].status = "refunded"
  /\ payments[last.id].completedAt # None
  /\ orders[payments[last.id].orderId].exists
  /\ orders[payments[last.id].orderId].isPaid
  /\ \E p \in Ids \ {last.id} :
        payments[p].exists /\ payments[p].orderId = payments[last.id].orderId

\* C28 (as claimed): when the detail page's handleUpdateStatus has finished, the
\* status the page displays is the stored status of the payment; when the
\* updatePaymentStatus it called failed, the displayed status and completedAt
\* are as they were and the page reports no success.
C28_DisplayedStatusIsStoredStatus ==
  [][(Settles("updatePaymentStatus") /\ detail' # detail) =>
       /\ payments'[detail'.id].exists
       /\ detail'.status = payments'[detail'.id].status
       /\ last'.err # "ok" =>
            /\ detail'.status = detail.status
            /\ detail'.completedAt = detail.completedAt
            /\ detail'.toast # "success"]_vars

\* C29 (as claimed): for the status of the payment the detail page shows, the
\* targets the page offers (getValidStatusTransitions) are exactly the targets
\* the payment service accepts (isValidStatusTransition).
C29_OfferedTargetsAreAcceptedTargets ==
  detail.id # None =>
     getValidStatusTransitions(detail.status) =
        {t \in PaymentStatus : isValidStatusTransition(detail.status, t)}

\* C21 (as claimed): a getUserById that follows the writes of the user service
\* (saveUser, updateUserProfile, updateUserRole, deleteUser) returns the state
\* they wrote: the stored document of the uid, null when there is none.
C21_ReadReturnsWrittenUser ==
  [][Settles("getUserById") =>
       returned'.user = get(users, last'.id, NoUser)]_vars

\* C25 (as claimed): a getAllUsers called when the list cache has been
\* invalidated by saveUser or deleteUser returns the stored users, not the
\* cached list.
C25_ListReflectsWrite ==
  [][(Settles("getAllUsers") /\ allUsersCache.timestamp = Epoch) =>
       returned'.users = users]_vars

\* C23 (as claimed): a community never has more than 2 admins, whatever the
\* sequence of addCommunityAdmin and removeCommunityAdmin calls and however two
\* adds interleave; an addCommunityAdmin that completes on a community with 2
\* admins fails and leaves adminIds as it was.
C23_AtMostTwoAdmins ==
  [][/\ \A c \in DOMAIN communities' : Cardinality(communities'[c].adminIds) <= 2
     /\ (/\ Settles("addCommunityAdmin")
         /\ last'.id \in DOMAIN communities
         /\ Cardinality(communities[last'.id].adminIds) = 2) =>
          /\ last'.err # "ok"
          /\ communities'[last'.id].adminIds = communities[last'.id].adminIds]_vars

\* C30 (as claimed): in every reachable state the memberCount of a stored
\* community is the number of its member documents.
C30_MemberCountIsMemberDocuments ==
  \A c \in DOMAIN communities :
     communities[c].memberCount = Cardinality(memberDocs(c))

====
